---- MODULE Spec2Model ----
(***************************************************************************)
(* Model of the token alignment (diff) engine of platypus-tasks:           *)
(* src/alignment.py.  Texts are sequences of one-character strings,        *)
(* offsets are 0-based as in the source, scores are Python floats with     *)
(* their IEEE 754 rounding.                                                *)
(***************************************************************************)
EXTENDS Integers, Sequences, FiniteSets, TLC

VARIABLES
    pc,                \* position inside align_texts / main
    left_text,         \* argument left_text of align_texts
    right_text,        \* argument right_text of align_texts
    all_left_tokens,   \* list(token_parser(left_text))
    all_right_tokens,  \* list(token_parser(right_text))
    best,              \* current[-1].extract_best() inside align
    aligned,           \* value returned by align
    alignment,         \* value returned by add_tokens (= align_texts)
    lines,             \* list(pretty_alignment(alignment))
    state,             \* the AlignmentState pick_best / extract_best act on
    candidates,        \* the three candidate scores passed to pick_best
    picked,            \* value returned by pick_best
    extracted,         \* value returned by extract_best
    self_tasks,        \* self.tasks of TodoFile.diff, in insertion order
    other_tasks,       \* other.tasks of TodoFile.diff, in insertion order
    diff_tasks,        \* DiffFile.diff_tasks returned by TodoFile.diff
    calls,             \* arguments of the align_texts calls made by diff
    task_counter,      \* self.header.task_counter of a TodoFile
    tasks_keys,        \* the keys of self.tasks of that TodoFile
    non_id_tasks,      \* self.non_id_tasks of that TodoFile
    assertion_failed,  \* the assert at line 206 raised AssertionError
    documents,         \* tasks_lsp.documents
    last_tasks,        \* tasks_lsp.last_tasks
    completions,       \* number of textDocument/completion requests read
    sent               \* the messages send_msg wrote, in order

alignVars == <<left_text, right_text, all_left_tokens, all_right_tokens,
               best, aligned, alignment, lines>>

pickVars == <<state, candidates, picked, extracted>>

diffVars == <<self_tasks, other_tasks, diff_tasks, calls>>

idsVars == <<task_counter, tasks_keys, non_id_tasks, assertion_failed>>

lspVars == <<documents, last_tasks, completions, sent>>

vars == <<pc, alignVars, pickVars, diffVars, idsVars, lspVars>>

----------------------------------------------------------------------------
(* Bounds and input alphabet *)

\* the texts given to align_texts: every pair of texts over Alphabet of at
\* most MaxTotal characters together, every text over Alphabet of at most
\* MaxSame characters paired with itself, and every pair of texts over
\* CaseAlphabet of at most MaxCase characters each
MaxTotal == 5
MaxSame == 3
MaxCase == 2

Alphabet == {"a", " ", "\n", "[", "]"}

CaseAlphabet == {"a", "A", " "}

TextsOfLen(n) == [1..n -> Alphabet]

Texts == UNION {TextsOfLen(n) : n \in 0..MaxSame}

CaseTexts == UNION {[1..n -> CaseAlphabet] : n \in 0..MaxCase}

TextPairs ==
    UNION {TextsOfLen(n) \X TextsOfLen(m) :
               <<n, m>> \in {q \in (0..MaxTotal) \X (0..MaxTotal) :
                                 q[1] + q[2] <= MaxTotal}}

SamePairs == {<<s, s>> : s \in Texts}

CasePairs == CaseTexts \X CaseTexts

FooBar == <<"f", "o", "o", " ", "b", "a", "r">>
FooBaz == <<"f", "o", "o", " ", "b", "a", "z">>
Indent2 == <<"a", "\n", " ", " ", "b">>
Indent4 == <<"a", "\n", " ", " ", " ", " ", "b">>

T12Done == <<"[", "t", "1", "2", "]", " ", "d", "o", "n", "e">>

ExamplePairs ==
    {<<FooBar, FooBaz>>, <<Indent2, Indent4>>, <<T12Done, T12Done>>}

InputPairs == TextPairs \cup SamePairs \cup CasePairs \cup ExamplePairs

----------------------------------------------------------------------------
(* Python string primitives *)

\* str.isspace() for one character
CharIsSpace(c) == c \in {" ", "\n"}

\* str.isalnum() for one character
CharIsAlnum(c) ==
    c \in {"a", "A", "b", "d", "e", "f", "n", "o", "r", "t", "z", "1", "2"}

\* str.lower() for one character
CharLower(c) == IF c = "A" THEN "a" ELSE c

\* str.lower()
Lower(s) == [i \in 1..Len(s) |-> CharLower(s[i])]

\* str.isspace(): non-empty and every character is whitespace
StrIsSpace(s) == Len(s) > 0 /\ \A i \in 1..Len(s) : CharIsSpace(s[i])

\* "\n" in s
HasNewline(s) == \E i \in 1..Len(s) : s[i] = "\n"

\* source[position], 0-based
At(source, position) == source[position + 1]

\* source[start:end], 0-based half-open
Slice(source, start, end) == SubSeq(source, start + 1, end)

\* s.split("\n"): the list of segments between newlines
RECURSIVE SplitNewline(_)
SplitNewline(s) ==
    IF ~HasNewline(s) THEN <<s>>
    ELSE LET i == CHOOSE k \in 1..Len(s) :
                    s[k] = "\n" /\ \A m \in 1..(k - 1) : s[m] # "\n"
         IN <<SubSeq(s, 1, i - 1)>> \o SplitNewline(SubSeq(s, i + 1, Len(s)))

Last(seq) == seq[Len(seq)]

RECURSIVE Reverse(_)
Reverse(seq) ==
    IF seq = <<>> THEN <<>> ELSE Append(Reverse(Tail(seq)), Head(seq))

RECURSIVE Concat(_)
Concat(seqs) ==
    IF seqs = <<>> THEN <<>> ELSE Head(seqs) \o Concat(Tail(seqs))

Abs(x) == IF x < 0 THEN -x ELSE x

----------------------------------------------------------------------------
(* CharType, Block, Token *)

CharType_WHITESPACE == 0
CharType_WORD == 1
CharType_OTHER == 2

Block_START == 0
Block_END == 0

\* A TokenType is a CharType (isTuple = FALSE, a = the enum value) or a
\* tuple (Block, int) (isTuple = TRUE, a = the Block value, b = the depth).
CharKind(c) == [isTuple |-> FALSE, a |-> c, b |-> 0]
BlockKind(block, depth) == [isTuple |-> TRUE, a |-> block, b |-> depth]

Ty_WHITESPACE == CharKind(CharType_WHITESPACE)
Ty_WORD == CharKind(CharType_WORD)
Ty_OTHER == CharKind(CharType_OTHER)

CharType_get(source, position) ==
    IF /\ 0 < position
       /\ position < Len(source) - 1
       /\ At(source, position - 1) = "["
       /\ At(source, position + 1) = "]"
    THEN Ty_WORD
    ELSE LET char == At(source, position) IN
         IF CharIsSpace(char) THEN Ty_WHITESPACE
         ELSE IF CharIsAlnum(char) \/ char = "_" THEN Ty_WORD
         ELSE Ty_OTHER

Token(source, start, end, t) ==
    [source |-> source, start |-> start, end |-> end, t |-> t]

None == Token(<<>>, -1, -1, CharKind(-1))

Token_text(self) == Slice(self.source, self.start, self.end)

----------------------------------------------------------------------------
(* token_parser *)

\* the inner while loop: first position >= position whose type is not c_type
RECURSIVE RunEnd(_, _, _)
RunEnd(source, c_type, position) ==
    IF position < Len(source) /\ c_type = CharType_get(source, position)
    THEN RunEnd(source, c_type, position + 1)
    ELSE position

\* len(whitespace_text.split("\n")[-1]) if "\n" in whitespace_text
\* else prev_indentation
CurrentIndentation(whitespace_text, prev_indentation) ==
    IF HasNewline(whitespace_text)
    THEN Len(Last(SplitNewline(whitespace_text)))
    ELSE prev_indentation

\* Variant: the marker always carries the new indentation
BlockMarker_current(source, position, prev_indentation, current_indentation) ==
    Token(source, position, position,
          BlockKind(Block_START, current_indentation))

\* the block marker yielded before a whitespace token whose indentation
\* differs from prev_indentation
BlockMarker(source, position, prev_indentation, current_indentation) ==
    Token(source, position, position,
          IF current_indentation < prev_indentation
          THEN BlockKind(Block_END, prev_indentation)
          ELSE BlockKind(Block_START, current_indentation))

\* the tokens yielded from `position` on, in the order they are yielded
RECURSIVE ParseFrom(_, _, _)
ParseFrom(source, position, prev_indentation) ==
    IF ~(position < Len(source)) THEN <<>>
    ELSE LET c_type == CharType_get(source, position)
             end == RunEnd(source, c_type, position)
             token == Token(source, position, end, c_type)
             current_indentation ==
                 IF c_type = Ty_WHITESPACE
                 THEN CurrentIndentation(Token_text(token), prev_indentation)
                 ELSE prev_indentation
         IN (IF current_indentation # prev_indentation
             THEN <<BlockMarker(source, end, prev_indentation,
                                current_indentation)>>
             ELSE <<>>)
            \o <<token>>
            \o ParseFrom(source, end, current_indentation)

token_parser(source) == ParseFrom(source, 0, 0)

IsWhitespaceToken(x) == x.t = Ty_WHITESPACE
IsNotWhitespaceToken(x) == x.t # Ty_WHITESPACE

----------------------------------------------------------------------------
(* Python floats.  A float x is the record [t, d] with                     *)
(*     x = t/10 + d * w,   w = 2^-54 / 5,                                  *)
(* t the nearest number of tenths and d the (small) deviation from it.     *)
(* In units of w a tenth is 2^53, and the doubles of the binade            *)
(* [2^e, 2^(e+1)) are the multiples of 5 * 2^(e+2).  Since 2^53 mod 5 = 2, *)
(* [t, d] is a double of that binade iff d is a multiple of 2^(e+2) and    *)
(* 2t + d is a multiple of 5.  All scores of the program are sums of 0.3,  *)
(* 0.7, 1.0, 100.0 and small integers.                                     *)

Float(t, d) == [t |-> t, d |-> d]

\* an int converted to float
FromInt(n) == Float(10 * n, 0)

\* the literals 0.3 and 0.7 (the doubles nearest to 3/10 and 7/10)
Float_0_3 == Float(3, -1)
Float_0_7 == Float(7, -4)

\* math.inf
Inf == 1000000
math_inf == Float(Inf, 0)

\* The binade of x = t/10 + d*w, x >= 0.25: the least p = 2^(e+2), from
\* p (with ten = 10 * 2^(e+1), the next power of two in tenths) upwards, such
\* that x < 2^(e+1)
RECURSIVE GridStep(_, _, _, _)
GridStep(t, d, p, ten) ==
    IF t > ten \/ (t = ten /\ d >= 0)
    THEN GridStep(t, d, 2 * p, 2 * ten)
    ELSE p

\* 2^(e+2) for the binade [2^e, 2^(e+1)) of x: the doubles of the binade are
\* the multiples of 5 * 2^(e+2) in units of w
GridPower(t, d) ==
    IF t < 5 \/ (t = 5 /\ d < 0) THEN 1 ELSE GridStep(t, d, 2, 10)

\* IEEE 754 round-to-nearest, ties to even, of the real number t/10 + d*w
FloatRound(t, d) ==
    IF t = 0 /\ d = 0 THEN Float(0, 0)
    ELSE LET p == GridPower(t, d)
             G == 5 * p
             j == CHOOSE i \in 0..4 : (2 * t + p * i) % 5 = 0
             lo == d - ((d - p * j) % G)
             hi == lo + G
         IN IF lo = d THEN Float(t, d)
            ELSE IF d - lo < hi - d THEN Float(t, lo)
            ELSE IF hi - d < d - lo THEN Float(t, hi)
            ELSE IF lo % (2 * p) = 0 THEN Float(t, lo)
            ELSE Float(t, hi)

\* float addition of non-negative numbers; inf + x = inf, x + 0.0 = x
Plus(a, b) ==
    IF a.t = Inf \/ b.t = Inf THEN math_inf
    ELSE IF b.t = 0 THEN a
    ELSE IF a.t = 0 THEN b
    ELSE FloatRound(a.t + b.t, a.d + b.d)

\* a < b
Less(a, b) == a.t < b.t \/ (a.t = b.t /\ a.d < b.d)

----------------------------------------------------------------------------
(* Token scores *)

\* isinstance(self, tuple) at line 50: self is a Token, which is a dataclass
\* and never a tuple
TokenIsTuple(self) == FALSE

Token_insert_score(self, previous_is_same) ==
    LET add == IF TokenIsTuple(self) /\ self.t.a = Block_END
               THEN FromInt(1) ELSE FromInt(0)
    IN IF previous_is_same THEN Plus(Float_0_3, add) ELSE Plus(Float_0_7, add)

\* Variant: the texts are compared without lower()
Token_mutation_score_case_sensitive(self, other) ==
    IF self.t # other.t THEN FromInt(100)
    ELSE IF self.t.isTuple /\ other.t.isTuple
         THEN FromInt(Abs(self.t.b - other.t.b))
    ELSE IF Token_text(self) = Token_text(other) THEN FromInt(0)
    ELSE FromInt(1)

Token_mutation_score(self, other) ==
    IF self.t # other.t THEN FromInt(100)
    ELSE IF self.t.isTuple /\ other.t.isTuple
         THEN FromInt(Abs(self.t.b - other.t.b))
    ELSE IF Lower(Token_text(self)) = Lower(Token_text(other)) THEN FromInt(0)
    ELSE FromInt(1)

----------------------------------------------------------------------------
(* PathList, AlignmentData, AlignmentState *)

\* A chain of PathList nodes is the sequence of its payloads, the node's own
\* payload first and the payload of the oldest predecessor last; the empty
\* sequence is the reference None.
PathList(payload, previous) == <<payload>> \o previous

\* Variant: out.reverse() at line 121 is executed
PathList_extract_path_reversed(self) == Reverse(self)

\* extract_path appends self.payload, then the payload of each predecessor;
\* the final out.reverse() is commented out at line 121
PathList_extract_path(self) == self

AlignmentData(score, path) == [score |-> score, path |-> path]

\* Variant: an unreachable alternative scored like the empty one
unreachable_zero == AlignmentData(FromInt(0), <<>>)

unreachable == AlignmentData(math_inf, <<>>)

empty == AlignmentData(FromInt(0), <<>>)

AlignmentState(mutation, insert_left, insert_right) ==
    [last_was_mutation |-> mutation,
     last_was_insert_left |-> insert_left,
     last_was_insert_right |-> insert_right]

\* Variant: the first comparison inverted, so that the larger of the two
\* insertion candidates is compared with the mutation candidate
pick_best_swapped(self, payload, mutation_score, insert_left_score, insert_right_score) ==
    IF Less(insert_right_score, insert_left_score)
    THEN IF Less(insert_left_score, mutation_score)
         THEN AlignmentData(insert_left_score,
                            PathList(payload, self.last_was_insert_left.path))
         ELSE AlignmentData(mutation_score,
                            PathList(payload, self.last_was_mutation.path))
    ELSE IF Less(insert_right_score, mutation_score)
         THEN AlignmentData(insert_right_score,
                            PathList(payload, self.last_was_insert_right.path))
         ELSE AlignmentData(mutation_score,
                            PathList(payload, self.last_was_mutation.path))

\* Variant: the mutation candidate is returned whatever the scores
pick_best_mutation_always(self, payload, mutation_score, insert_left_score, insert_right_score) ==
    AlignmentData(mutation_score,
                  PathList(payload, self.last_was_mutation.path))

\* Variant: the mutation candidate loses the ties with an insertion candidate
pick_best_insertion_on_ties(self, payload, mutation_score, insert_left_score, insert_right_score) ==
    IF Less(insert_left_score, insert_right_score)
    THEN IF ~Less(mutation_score, insert_left_score)
         THEN AlignmentData(insert_left_score,
                            PathList(payload, self.last_was_insert_left.path))
         ELSE AlignmentData(mutation_score,
                            PathList(payload, self.last_was_mutation.path))
    ELSE IF ~Less(mutation_score, insert_right_score)
         THEN AlignmentData(insert_right_score,
                            PathList(payload, self.last_was_insert_right.path))
         ELSE AlignmentData(mutation_score,
                            PathList(payload, self.last_was_mutation.path))

pick_best(self, payload, mutation_score, insert_left_score, insert_right_score) ==
    IF Less(insert_left_score, insert_right_score)
    THEN IF Less(insert_left_score, mutation_score)
         THEN AlignmentData(insert_left_score,
                            PathList(payload, self.last_was_insert_left.path))
         ELSE AlignmentData(mutation_score,
                            PathList(payload, self.last_was_mutation.path))
    ELSE IF Less(insert_right_score, mutation_score)
         THEN AlignmentData(insert_right_score,
                            PathList(payload, self.last_was_insert_right.path))
         ELSE AlignmentData(mutation_score,
                            PathList(payload, self.last_was_mutation.path))

\* Variant: the two results of the first branch exchanged
extract_best_exchanged(self) ==
    IF Less(self.last_was_mutation.score, self.last_was_insert_left.score)
    THEN IF Less(self.last_was_mutation.score,
                 self.last_was_insert_right.score)
         THEN self.last_was_insert_right
         ELSE self.last_was_mutation
    ELSE IF Less(self.last_was_insert_left.score,
                 self.last_was_insert_right.score)
         THEN self.last_was_insert_left
         ELSE self.last_was_insert_right

\* Variant: the comparisons of pick_best, the mutation alternative winning
\* the ties with an insertion alternative
extract_best_as_pick_best(self) ==
    IF Less(self.last_was_insert_left.score, self.last_was_insert_right.score)
    THEN IF Less(self.last_was_insert_left.score, self.last_was_mutation.score)
         THEN self.last_was_insert_left
         ELSE self.last_was_mutation
    ELSE IF Less(self.last_was_insert_right.score,
                 self.last_was_mutation.score)
         THEN self.last_was_insert_right
         ELSE self.last_was_mutation

extract_best(self) ==
    IF Less(self.last_was_mutation.score, self.last_was_insert_left.score)
    THEN IF Less(self.last_was_mutation.score,
                 self.last_was_insert_right.score)
         THEN self.last_was_mutation
         ELSE self.last_was_insert_right
    ELSE IF Less(self.last_was_insert_left.score,
                 self.last_was_insert_right.score)
         THEN self.last_was_insert_left
         ELSE self.last_was_insert_right

insert_left_score(self, l) ==
    pick_best(self, <<l, None>>,
              Plus(self.last_was_mutation.score, Token_insert_score(l, FALSE)),
              Plus(self.last_was_insert_left.score,
                   Token_insert_score(l, TRUE)),
              Plus(self.last_was_insert_right.score,
                   Token_insert_score(l, FALSE)))

insert_right_score(self, r) ==
    pick_best(self, <<None, r>>,
              Plus(self.last_was_mutation.score, Token_insert_score(r, FALSE)),
              Plus(self.last_was_insert_left.score,
                   Token_insert_score(r, FALSE)),
              Plus(self.last_was_insert_right.score,
                   Token_insert_score(r, TRUE)))

mutation_score(self, l, r) ==
    LET s == Token_mutation_score(l, r)
    IN pick_best(self, <<l, r>>,
                 Plus(self.last_was_mutation.score, s),
                 Plus(self.last_was_insert_left.score, s),
                 Plus(self.last_was_insert_right.score, s))

----------------------------------------------------------------------------
(* align *)

\* `current` after the first n iterations of the loop `for l in left`
RECURSIVE FirstRow(_, _)
FirstRow(left, n) ==
    IF n = 0 THEN <<AlignmentState(empty, unreachable, unreachable)>>
    ELSE LET current == FirstRow(left, n - 1)
         IN Append(current,
                   AlignmentState(unreachable,
                                  insert_left_score(Last(current), left[n]),
                                  unreachable))

\* `next_row` after its first cell and n iterations of the inner loop
RECURSIVE NextRow(_, _, _, _)
NextRow(current, left, r, n) ==
    IF n = 0
    THEN <<AlignmentState(unreachable, unreachable,
                          insert_right_score(current[1], r))>>
    ELSE LET next_row == NextRow(current, left, r, n - 1)
         IN Append(next_row,
                   AlignmentState(mutation_score(current[n], left[n], r),
                                  insert_left_score(next_row[n], left[n]),
                                  insert_right_score(current[n + 1], r)))

\* `current` after the first j iterations of the loop `for r in right`
RECURSIVE Rows(_, _, _)
Rows(left, right, j) ==
    IF j = 0 THEN FirstRow(left, Len(left))
    ELSE NextRow(Rows(left, right, j - 1), left, right[j], Len(left))

\* current[-1].extract_best()
align_best(left, right) == extract_best(Last(Rows(left, right, Len(right))))

\* lines 234-237
align_return(ret) == IF ret = <<>> THEN <<>> ELSE PathList_extract_path(ret)

align(left, right) == align_return(align_best(left, right).path)

----------------------------------------------------------------------------
(* add_tokens *)

\* Variant: the while loops never run, no token is spliced in
SpliceEnd_never(tokens, index, position) == index

\* the while loops at lines 379 and 384: the index reached from `index`
RECURSIVE SpliceEnd(_, _, _)
SpliceEnd(tokens, index, position) ==
    IF index < Len(tokens) /\ tokens[index + 1].start < position.start
    THEN SpliceEnd(tokens, index + 1, position)
    ELSE index

\* the operations appended for right[from:to] and for left[from:to]
RightOnly(right, from, to) ==
    [i \in 1..(to - from) |-> <<None, right[from + i]>>]
LeftOnly(left, from, to) ==
    [i \in 1..(to - from) |-> <<left[from + i], None>>]

AddTokensState(new_alignment, left_index, right_index, left_position, right_position) ==
    [new_alignment |-> new_alignment,
     left_index |-> left_index, right_index |-> right_index,
     left_position |-> left_position, right_position |-> right_position]

\* Variant: the left boundary is never moved to a_left
add_tokens_left_position_stale(a_left, left_position) == left_position

\* line 382, `a_left if left is not None else left_position`: the test is on
\* the list `left`, which is never None, so the value is a_left
add_tokens_left_position(a_left, left_position) == a_left

\* line 377
add_tokens_right_position(a_right, right_position) ==
    IF a_right # None THEN a_right ELSE right_position

\* one iteration of the loop at line 376
add_tokens_step(st, op, left, right) ==
    LET a_left == op[1]
        a_right == op[2]
        right_position == add_tokens_right_position(a_right, st.right_position)
        right_index == IF right_position # None
                       THEN SpliceEnd(right, st.right_index, right_position)
                       ELSE st.right_index
        left_position == add_tokens_left_position(a_left, st.left_position)
        left_index == IF left_position # None
                      THEN SpliceEnd(left, st.left_index, left_position)
                      ELSE st.left_index
    IN AddTokensState(st.new_alignment
                          \o RightOnly(right, st.right_index, right_index)
                          \o LeftOnly(left, st.left_index, left_index)
                          \o <<op>>,
                      left_index, right_index, left_position, right_position)

\* the state after the first n iterations over `ops`
RECURSIVE add_tokens_loop(_, _, _, _)
add_tokens_loop(ops, n, left, right) ==
    IF n = 0 THEN AddTokensState(<<>>, 0, 0, None, None)
    ELSE add_tokens_step(add_tokens_loop(ops, n - 1, left, right), ops[n],
                         left, right)

\* Variant: the loop at line 391 over the remaining left tokens is missing
add_tokens_rest_right_only(st, left, right) ==
    RightOnly(right, st.right_index, Len(right))

\* lines 389-392: the remaining right tokens, then the remaining left tokens
add_tokens_rest(st, left, right) ==
    RightOnly(right, st.right_index, Len(right))
        \o LeftOnly(left, st.left_index, Len(left))

\* Variant: the loop at line 376 walks old_alignment instead of
\* reversed(old_alignment)
add_tokens_unreversed(old_alignment, left, right) ==
    LET st == add_tokens_loop(old_alignment, Len(old_alignment), left, right)
    IN st.new_alignment \o add_tokens_rest(st, left, right)

add_tokens(old_alignment, left, right) ==
    LET st == add_tokens_loop(Reverse(old_alignment), Len(old_alignment),
                              left, right)
    IN st.new_alignment \o add_tokens_rest(st, left, right)

align_texts(left, right) ==
    LET all_left == token_parser(left)
        all_right == token_parser(right)
    IN add_tokens(align(SelectSeq(all_left, IsNotWhitespaceToken),
                        SelectSeq(all_right, IsNotWhitespaceToken)),
                  SelectSeq(all_left, IsWhitespaceToken),
                  SelectSeq(all_right, IsWhitespaceToken))

----------------------------------------------------------------------------
(* ColoredString *)

\* Styling markers of the `colored` package, each one element of a
\* formatted string
Fore_red == "<red>"
Fore_green == "<green>"
Style_strikeout == "<strikeout>"
Style_reset == "<reset>"

\* An element of _payload: a str (colored = FALSE) or a ColoredString built
\* from one str (colored = TRUE) with its color ("" for None) and
\* strike_through.
Str(data) == [colored |-> FALSE, text |-> data, color |-> "", strike |-> FALSE]
ColoredString(data, color, strike_through) ==
    [colored |-> TRUE, text |-> data, color |-> color,
     strike |-> strike_through]

\* A line is the _payload of a ColoredString() without color
ColoredString_extend(self, data) == Append(self, data)

RECURSIVE ColoredString_len(_)
ColoredString_len(self) ==
    IF self = <<>> THEN 0
    ELSE Len(Head(self).text) + ColoredString_len(Tail(self))

\* x.isspace() for an element x of _payload with len(x) > 0
PayloadIsSpace(x) == StrIsSpace(x.text)

ColoredString_isspace(self) ==
    IF \E i \in 1..Len(self) :
           Len(self[i].text) > 0 /\ ~PayloadIsSpace(self[i])
    THEN FALSE
    ELSE ColoredString_len(self) > 0

\* colored_strings of one payload element, joined
PayloadFormat(x) ==
    IF ~x.colored THEN x.text
    ELSE (IF x.color = "red" THEN <<Fore_red>>
          ELSE IF x.color = "green" THEN <<Fore_green>> ELSE <<>>)
         \o (IF x.strike THEN <<Style_strikeout>> ELSE <<>>)
         \o x.text
         \o (IF x.color # "" \/ x.strike THEN <<Style_reset>> ELSE <<>>)

\* f"{line}"
ColoredString_format(self) ==
    Concat([i \in 1..Len(self) |-> PayloadFormat(self[i])])

Spaces(n) == [i \in 1..n |-> " "]

----------------------------------------------------------------------------
(* pretty_alignment *)

\* Variant: no side of a differing pair of lines is suppressed
flush_unsuppressed(left_line, right_line) ==
    IF ColoredString_format(left_line) # ColoredString_format(right_line)
    THEN <<ColoredString_format(left_line), ColoredString_format(right_line)>>
    ELSE <<ColoredString_format(right_line)>>

\* the lines yielded by flush()
flush(left_line, right_line) ==
    IF ColoredString_format(left_line) # ColoredString_format(right_line)
    THEN (IF ~ColoredString_isspace(left_line)
          THEN <<ColoredString_format(left_line)>> ELSE <<>>)
         \o (IF ~ColoredString_isspace(right_line)
             THEN <<ColoredString_format(right_line)>> ELSE <<>>)
    ELSE <<ColoredString_format(right_line)>>

PrettyState(left_line, right_line, prev_was_space, out) ==
    [left_line |-> left_line, right_line |-> right_line,
     prev_was_space |-> prev_was_space, out |-> out]

\* Variant: the shorter side of a pair is not padded
PrettyPair_unpadded(st, left, right) ==
    LET left_text_ == Token_text(left)
        right_text_ == Token_text(right)
        same == Lower(left_text_) = Lower(right_text_)
    IN PrettyState(
           ColoredString_extend(st.left_line,
               IF same THEN Str(Spaces(Len(left_text_)))
               ELSE ColoredString(left_text_, "red", FALSE)),
           ColoredString_extend(st.right_line,
               IF same THEN Str(right_text_)
               ELSE ColoredString(right_text_, "green", FALSE)),
           FALSE, st.out)

\* lines 318-333
PrettyPair(st, left, right) ==
    LET left_text_ == Token_text(left)
        right_text_ == Token_text(right)
        same == Lower(left_text_) = Lower(right_text_)
        l1 == ColoredString_extend(st.left_line,
                  IF same THEN Str(Spaces(Len(left_text_)))
                  ELSE ColoredString(left_text_, "red", FALSE))
        r1 == ColoredString_extend(st.right_line,
                  IF same THEN Str(right_text_)
                  ELSE ColoredString(right_text_, "green", FALSE))
        left_len == Len(left_text_)
        right_len == Len(right_text_)
    IN PrettyState(
           IF left_len < right_len
           THEN ColoredString_extend(l1, Str(Spaces(right_len - left_len)))
           ELSE l1,
           IF right_len < left_len
           THEN ColoredString_extend(r1, Str(Spaces(left_len - right_len)))
           ELSE r1,
           FALSE, st.out)

\* Variant: a left-only whitespace token is marked whatever prev_was_space
PrettyLeftOnly_always_marked(st, left) ==
    IF left.t = Ty_WHITESPACE
    THEN PrettyState(
             ColoredString_extend(st.left_line, Str(<<" ">>)),
             ColoredString_extend(st.right_line,
                                  ColoredString(<<" ">>, "red", TRUE)),
             TRUE, st.out)
    ELSE LET text == Token_text(left)
         IN PrettyState(
                ColoredString_extend(st.left_line, Str(Spaces(Len(text)))),
                ColoredString_extend(st.right_line,
                                     ColoredString(text, "red", TRUE)),
                FALSE, st.out)

\* Variant: the struck-through text of a left-only token goes to the left
\* line and the padding to the right line
PrettyLeftOnly_struck_left(st, left) ==
    IF left.t = Ty_WHITESPACE
    THEN IF ~st.prev_was_space
         THEN PrettyState(
                  ColoredString_extend(st.left_line, Str(<<" ">>)),
                  ColoredString_extend(st.right_line,
                                       ColoredString(<<" ">>, "red", TRUE)),
                  TRUE, st.out)
         ELSE PrettyState(st.left_line, st.right_line, TRUE, st.out)
    ELSE LET text == Token_text(left)
         IN PrettyState(
                ColoredString_extend(st.left_line,
                                     ColoredString(text, "red", TRUE)),
                ColoredString_extend(st.right_line, Str(Spaces(Len(text)))),
                FALSE, st.out)

\* lines 334-345
PrettyLeftOnly(st, left) ==
    IF left.t = Ty_WHITESPACE
    THEN IF ~st.prev_was_space
         THEN PrettyState(
                  ColoredString_extend(st.left_line, Str(<<" ">>)),
                  ColoredString_extend(st.right_line,
                                       ColoredString(<<" ">>, "red", TRUE)),
                  TRUE, st.out)
         ELSE PrettyState(st.left_line, st.right_line, TRUE, st.out)
    ELSE LET text == Token_text(left)
         IN PrettyState(
                ColoredString_extend(st.left_line, Str(Spaces(Len(text)))),
                ColoredString_extend(st.right_line,
                                     ColoredString(text, "red", TRUE)),
                FALSE, st.out)

\* lines 354-357: for each further segment, flush and start a fresh pair
RECURSIVE PrettySegments(_, _)
PrettySegments(st, segments) ==
    IF segments = <<>> THEN st
    ELSE PrettySegments(
             PrettyState(ColoredString_extend(<<>>, Str(Head(segments))),
                         ColoredString_extend(<<>>, Str(Head(segments))),
                         st.prev_was_space,
                         st.out \o flush(st.left_line, st.right_line)),
             Tail(segments))

\* lines 346-366
PrettyRightOnly(st, right) ==
    IF right.t = Ty_WHITESPACE
    THEN LET whitespace_str == Token_text(right)
         IN IF HasNewline(whitespace_str)
            THEN LET whitespace == SplitNewline(whitespace_str)
                     first == Head(whitespace)
                     st1 == PrettyState(
                                ColoredString_extend(st.left_line, Str(first)),
                                ColoredString_extend(st.right_line, Str(first)),
                                st.prev_was_space, st.out)
                     st2 == PrettySegments(st1, Tail(whitespace))
                 IN PrettyState(st2.left_line, st2.right_line, TRUE, st2.out)
            ELSE PrettyState(
                     ColoredString_extend(st.left_line, Str(whitespace_str)),
                     ColoredString_extend(st.right_line, Str(whitespace_str)),
                     TRUE, st.out)
    ELSE LET text == Token_text(right)
         IN PrettyState(
                ColoredString_extend(st.left_line, Str(Spaces(Len(text)))),
                ColoredString_extend(st.right_line,
                                     ColoredString(text, "green", FALSE)),
                FALSE, st.out)

\* one iteration of the loop at line 317
PrettyStep(st, op) ==
    LET left == op[1]
        right == op[2]
    IN IF left # None /\ right # None THEN PrettyPair(st, left, right)
       ELSE IF left # None /\ right = None THEN PrettyLeftOnly(st, left)
       ELSE IF right # None /\ left = None THEN PrettyRightOnly(st, right)
       ELSE st

RECURSIVE PrettyLoop(_, _)
PrettyLoop(alignment_, n) ==
    IF n = 0 THEN PrettyState(<<>>, <<>>, TRUE, <<>>)
    ELSE PrettyStep(PrettyLoop(alignment_, n - 1), alignment_[n])

\* the list of lines yielded, the final flush included
pretty_alignment(alignment_) ==
    LET st == PrettyLoop(alignment_, Len(alignment_))
    IN st.out \o flush(st.left_line, st.right_line)

----------------------------------------------------------------------------
(* The state machine: main() = align_texts followed by pretty_alignment *)

\* the variables of the pick_best / extract_best study, unused
PickIdle ==
    /\ state = AlignmentState(empty, unreachable, unreachable)
    /\ candidates = <<>>
    /\ picked = empty
    /\ extracted = empty

\* the variables of TodoFile.diff, unused
DiffIdle ==
    /\ self_tasks = <<>>
    /\ other_tasks = <<>>
    /\ diff_tasks = <<>>
    /\ calls = <<>>

\* the variables of _add_missing_ids, unused
IdsIdle ==
    /\ task_counter = <<"0">>
    /\ tasks_keys = {}
    /\ non_id_tasks = <<>>
    /\ assertion_failed = FALSE

\* the variables of the LSP loop, unused
LspIdle ==
    /\ documents = <<>>
    /\ last_tasks = <<>>
    /\ completions = 0
    /\ sent = <<>>

\* the variables of align_texts / main, unused
AlignIdle ==
    /\ left_text = <<>>
    /\ right_text = <<>>
    /\ all_left_tokens = <<>>
    /\ all_right_tokens = <<>>
    /\ best = empty
    /\ aligned = <<>>
    /\ alignment = <<>>
    /\ lines = <<>>

Init ==
    /\ pc = "start"
    /\ \E pair \in InputPairs :
           /\ left_text = pair[1]
           /\ right_text = pair[2]
    /\ all_left_tokens = <<>>
    /\ all_right_tokens = <<>>
    /\ best = empty
    /\ aligned = <<>>
    /\ alignment = <<>>
    /\ lines = <<>>
    /\ PickIdle
    /\ DiffIdle
    /\ IdsIdle
    /\ LspIdle

\* align_texts, lines 397-398
TokenParser ==
    /\ pc = "start"
    /\ all_left_tokens' = token_parser(left_text)
    /\ all_right_tokens' = token_parser(right_text)
    /\ pc' = "tokenized"
    /\ UNCHANGED <<left_text, right_text, best, aligned, alignment, lines>>
    /\ UNCHANGED <<pickVars, diffVars, idsVars, lspVars>>

\* align_texts, lines 400-403: align over the non-whitespace tokens
Align ==
    /\ pc = "tokenized"
    /\ LET left == SelectSeq(all_left_tokens, IsNotWhitespaceToken)
           right == SelectSeq(all_right_tokens, IsNotWhitespaceToken)
       IN /\ best' = align_best(left, right)
          /\ aligned' = align_return(best'.path)
    /\ pc' = "aligned"
    /\ UNCHANGED <<left_text, right_text, all_left_tokens, all_right_tokens,
                   alignment, lines>>
    /\ UNCHANGED <<pickVars, diffVars, idsVars, lspVars>>

\* align_texts, lines 399-406: add_tokens with the whitespace tokens
AddTokens ==
    /\ pc = "aligned"
    /\ alignment' = add_tokens(aligned,
                               SelectSeq(all_left_tokens, IsWhitespaceToken),
                               SelectSeq(all_right_tokens, IsWhitespaceToken))
    /\ pc' = "merged"
    /\ UNCHANGED <<left_text, right_text, all_left_tokens, all_right_tokens,
                   best, aligned, lines>>
    /\ UNCHANGED <<pickVars, diffVars, idsVars, lspVars>>

\* main, lines 418-419: the lines of pretty_alignment(alignment)
PrettyAlignment ==
    /\ pc = "merged"
    /\ lines' = pretty_alignment(alignment)
    /\ pc' = "done"
    /\ UNCHANGED <<left_text, right_text, all_left_tokens, all_right_tokens,
                   best, aligned, alignment>>
    /\ UNCHANGED <<pickVars, diffVars, idsVars, lspVars>>

Next == TokenParser \/ Align \/ AddTokens \/ PrettyAlignment

Spec == Init /\ [][Next]_vars

----------------------------------------------------------------------------
(* pick_best and extract_best on one AlignmentState *)

\* the scores a cell of align can hold: sums of insert and mutation scores
Scores == {FromInt(0), Float_0_3, Float_0_7, FromInt(1), math_inf}

\* the path of each alternative tells the alternatives apart
MutationPath == <<"mutation">>
InsertLeftPath == <<"insert_left">>
InsertRightPath == <<"insert_right">>

PickInit ==
    /\ pc = "pick_start"
    /\ \E m \in Scores, il \in Scores, ir \in Scores :
           state = AlignmentState(AlignmentData(m, MutationPath),
                                  AlignmentData(il, InsertLeftPath),
                                  AlignmentData(ir, InsertRightPath))
    /\ candidates = <<>>
    /\ picked = empty
    /\ extracted = empty
    /\ AlignIdle
    /\ DiffIdle
    /\ IdsIdle
    /\ LspIdle

\* self.pick_best(payload, mutation_score, insert_left_score,
\* insert_right_score), lines 142-163
PickBest ==
    /\ pc = "pick_start"
    /\ \E m \in Scores, il \in Scores, ir \in Scores :
           /\ candidates' = <<m, il, ir>>
           /\ picked' = pick_best(state, "payload", m, il, ir)
    /\ pc' = "picked"
    /\ UNCHANGED <<state, extracted, alignVars, diffVars,
                   idsVars, lspVars>>

\* self.extract_best(), lines 165-172
ExtractBest ==
    /\ pc = "picked"
    /\ extracted' = extract_best(state)
    /\ pc' = "extracted"
    /\ UNCHANGED <<state, candidates, picked, alignVars, diffVars,
                   idsVars, lspVars>>

PickNext == PickBest \/ ExtractBest

SpecPick == PickInit /\ [][PickNext]_vars

----------------------------------------------------------------------------
(* TodoFile.diff (datastructures.py) *)

Identifiers == {<<"t", "1">>, <<"t", "2">>}
Titles == {<<"a">>, <<"b">>}
Sections == {"s1", "s2"}

\* a Task with state None, no tags, no prefix, no description and no level
Task(identifier, title, section, line_number) ==
    [identifier |-> identifier, title |-> title, section |-> section,
     line_number |-> line_number]

\* "\n".join(lines)
RECURSIVE JoinLines(_)
JoinLines(ls) ==
    IF ls = <<>> THEN <<>>
    ELSE IF Len(ls) = 1 THEN ls[1]
    ELSE ls[1] \o <<"\n">> \o JoinLines(Tail(ls))

\* Task.ser: the words are the identifier and the title
Task_ser(self) == <<self.identifier \o <<" ">> \o self.title>>

\* other.tasks.get(identifier): the task, or <<>> for None
TasksGet(tasks, identifier) ==
    SelectSeq(tasks, LAMBDA task : task.identifier = identifier)

DiffTask(diff, line_number, old_section, new_section) ==
    [diff |-> diff, line_number |-> line_number,
     old_section |-> old_section, new_section |-> new_section]

\* "\n".join(aln.pretty_alignment(aln.align_texts(left, right)))
DiffText(left, right) == JoinLines(pretty_alignment(align_texts(left, right)))

\* the locals of diff: tasks and used_tasks, and the align_texts calls made
DiffState(tasks, used_tasks, calls_) ==
    [tasks |-> tasks, used_tasks |-> used_tasks, calls |-> calls_]

\* tasks[identifier] = value
DictSet(tasks, identifier, value) ==
    [k \in DOMAIN tasks \cup {identifier} |->
        IF k = identifier THEN value ELSE tasks[k]]

\* one iteration of `for task in self.tasks.values()`; every task of a
\* dictionary is stored under its identifier, so that the guard
\* `task.identifier is None` of both loops never holds
diff_self_step(st, task, other) ==
    LET task_str == JoinLines(Task_ser(task))
        o == TasksGet(other, task.identifier)
        used == st.used_tasks \cup {task.identifier}
    IN IF o = <<>>
       THEN DiffState(DictSet(st.tasks, task.identifier,
                              DiffTask(DiffText(<<>>, task_str),
                                       task.line_number, "None",
                                       task.section)),
                      used,
                      Append(st.calls, <<task.identifier, <<>>, task_str>>))
       ELSE LET o_str == JoinLines(Task_ser(o[1]))
            IN IF task_str # o_str
               THEN DiffState(DictSet(st.tasks, task.identifier,
                                      DiffTask(DiffText(o_str, task_str),
                                               task.line_number, o[1].section,
                                               task.section)),
                              used,
                              Append(st.calls,
                                     <<task.identifier, o_str, task_str>>))
               ELSE DiffState(st.tasks, used, st.calls)

\* Variant: tasks already seen in self.tasks are not skipped
diff_other_step_all(st, task) ==
    LET task_str == JoinLines(Task_ser(task))
    IN DiffState(DictSet(st.tasks, task.identifier,
                         DiffTask(DiffText(task_str, <<>>),
                                  task.line_number, task.section, "None")),
                 st.used_tasks,
                 Append(st.calls, <<task.identifier, task_str, <<>> >>))

\* one iteration of `for task in other.tasks.values()`
diff_other_step(st, task) ==
    IF task.identifier \in st.used_tasks THEN st
    ELSE LET task_str == JoinLines(Task_ser(task))
         IN DiffState(DictSet(st.tasks, task.identifier,
                              DiffTask(DiffText(task_str, <<>>),
                                       task.line_number, task.section,
                                       "None")),
                      st.used_tasks,
                      Append(st.calls, <<task.identifier, task_str, <<>> >>))

RECURSIVE diff_self_loop(_, _, _)
diff_self_loop(self, n, other) ==
    IF n = 0 THEN DiffState(<<>>, {}, <<>>)
    ELSE diff_self_step(diff_self_loop(self, n - 1, other), self[n], other)

RECURSIVE diff_other_loop(_, _, _)
diff_other_loop(st, other, n) ==
    IF n = 0 THEN st
    ELSE diff_other_step(diff_other_loop(st, other, n - 1), other[n])

\* TodoFile.diff(self, other): the locals when the two loops are over
diff(self, other) ==
    diff_other_loop(diff_self_loop(self, Len(self), other), other, Len(other))

\* the task dictionaries a TodoFile can hold: every task under its own
\* identifier, in any insertion order
TaskOf(identifier) ==
    {Task(identifier, title, section, Len(identifier[2]))
        : title \in Titles, section \in Sections}

TaskDicts ==
    {<<>>}
    \cup UNION {{<<task>> : task \in TaskOf(k)} : k \in Identifiers}
    \cup UNION {{<<a, b>> : a \in TaskOf(k[1]), b \in TaskOf(k[2])}
                    : k \in {p \in Identifiers \X Identifiers : p[1] # p[2]}}

DiffInit ==
    /\ pc = "diff_start"
    /\ self_tasks \in TaskDicts
    /\ other_tasks \in TaskDicts
    /\ diff_tasks = <<>>
    /\ calls = <<>>
    /\ AlignIdle
    /\ PickIdle
    /\ IdsIdle
    /\ LspIdle

\* result = self.diff(other), lines 246-289
Diff ==
    /\ pc = "diff_start"
    /\ LET st == diff(self_tasks, other_tasks)
       IN /\ diff_tasks' = st.tasks
          /\ calls' = st.calls
    /\ pc' = "diff_done"
    /\ UNCHANGED <<self_tasks, other_tasks, alignVars, pickVars, idsVars,
                   lspVars>>

DiffNext == Diff

SpecDiff == DiffInit /\ [][DiffNext]_vars

----------------------------------------------------------------------------
(* TodoFile._add_missing_ids and increase_counter (datastructures.py) *)

MaxDigits == 2
MaxNonId == 2

Digits == <<"0", "1", "2", "3", "4", "5", "6", "7", "8", "9">>

DigitValue(c) == CHOOSE d \in 0..9 : Digits[d + 1] = c

\* int(counter)
RECURSIVE IntOf(_)
IntOf(counter) ==
    IF counter = <<>> THEN 0
    ELSE 10 * IntOf(SubSeq(counter, 1, Len(counter) - 1))
         + DigitValue(Last(counter))

\* str(number), number >= 0
RECURSIVE StrOf(_)
StrOf(number) ==
    IF number < 10 THEN <<Digits[number + 1]>>
    ELSE StrOf(number \div 10) \o <<Digits[(number % 10) + 1]>>

increase_counter(counter) ==
    LET number == IntOf(counter) + 1
        as_string == StrOf(number)
    IN IF Len(counter) > Len(as_string)
       THEN SubSeq(counter, 1, Len(counter) - Len(as_string)) \o as_string
       ELSE as_string

\* f"t{self.header.task_counter}"
TaskIdentifier(counter) == <<"t">> \o counter

\* header.task_counter, the keys of tasks, and whether the assert raised
IdsState(counter, tasks, failed) ==
    [counter |-> counter, tasks |-> tasks, failed |-> failed]

\* one iteration of `for task in self.non_id_tasks`; an AssertionError ends
\* the loop and the method
add_missing_ids_step(st, task) ==
    IF st.failed THEN st
    ELSE LET counter == increase_counter(st.counter)
             identifier == TaskIdentifier(counter)
         IN IF identifier \in st.tasks
            THEN IdsState(counter, st.tasks, TRUE)
            ELSE IdsState(counter, st.tasks \cup {identifier}, FALSE)

RECURSIVE add_missing_ids_loop(_, _, _, _)
add_missing_ids_loop(counter, tasks, non_id, n) ==
    IF n = 0 THEN IdsState(counter, tasks, FALSE)
    ELSE add_missing_ids_step(
             add_missing_ids_loop(counter, tasks, non_id, n - 1), non_id[n])

\* the header counters parse_header accepts (COUNTER_RE), leading zeros
\* included
CounterDigits == {"0", "1", "9"}
Counters == UNION {[1..n -> CounterDigits] : n \in 1..MaxDigits}

\* identifiers parse can read from task lines (ID_RE)
KnownIdentifiers ==
    {<<"t", "1">>, <<"t", "2">>, <<"t", "0", "1">>, <<"t", "1", "0">>,
     <<"t", "0", "2">>}

\* a task whose line holds no identifier
NonIdTask == Task(<<>>, <<"a">>, "s1", 0)

\* a TodoFile as parse returns it: deprecated_sections is empty
IdsInit ==
    /\ pc = "ids_start"
    /\ task_counter \in Counters
    /\ tasks_keys \in SUBSET KnownIdentifiers
    /\ \E n \in 0..MaxNonId : non_id_tasks = [i \in 1..n |-> NonIdTask]
    /\ assertion_failed = FALSE
    /\ AlignIdle
    /\ PickIdle
    /\ DiffIdle
    /\ LspIdle

\* self._add_missing_ids(), lines 195-210
AddMissingIds ==
    /\ pc = "ids_start"
    /\ LET st == add_missing_ids_loop(task_counter, tasks_keys, non_id_tasks,
                                      Len(non_id_tasks))
       IN /\ task_counter' = st.counter
          /\ tasks_keys' = st.tasks
          /\ assertion_failed' = st.failed
          /\ non_id_tasks' = IF st.failed THEN non_id_tasks ELSE <<>>
    /\ pc' = "ids_done"
    /\ UNCHANGED <<alignVars, pickVars, diffVars, lspVars>>

IdsNext == AddMissingIds

SpecIds == IdsInit /\ [][IdsNext]_vars

----------------------------------------------------------------------------
(* The LSP loop (tasks_lsp.py) *)

MaxLines == 2
MaxRequests == 3

Uris == {"u1", "u2"}

\* A document text, by what the loop reads of it: the number of lines of
\* text.split("\n"), the number of tasks with an identifier parse returns
\* for it (none also when parse returns None), and whether its lines start
\* with "@"
DocText(nlines, ntasks, at) ==
    [nlines |-> nlines, ntasks |-> ntasks, at |-> at]

DocTexts == {DocText(n, k, a) : n \in 1..MaxLines, k \in 0..1, a \in BOOLEAN}

\* a value of documents: the text as received, or its list of lines
StrDocument(text) == [kind |-> "str", text |-> text]
ListDocument(text) == [kind |-> "list", text |-> text]

\* what get_document returns as document: None, the list of lines, or the
\* first argument of t.cast(document, t.List[str]), which is the type
\* object typing.List[str] and not a list
ReturnedNone == [kind |-> "None", nlines |-> 0, at |-> FALSE]
ReturnedLines(text) ==
    [kind |-> "list", nlines |-> text.nlines, at |-> text.at]
ReturnedType == [kind |-> "typing.List[str]", nlines |-> 0, at |-> FALSE]

GetDocumentResult(document, tasks, documents_, last_tasks_) ==
    [document |-> document, tasks |-> tasks, documents |-> documents_,
     last_tasks |-> last_tasks_]

\* get_document(uri), lines 53-73
get_document(uri) ==
    IF uri \notin DOMAIN documents
    THEN GetDocumentResult(ReturnedNone, 0, documents, last_tasks)
    ELSE IF documents[uri].kind = "str"
    THEN LET text == documents[uri].text
         IN GetDocumentResult(
                ReturnedLines(text), text.ntasks,
                DictSet(documents, uri, ListDocument(text)),
                IF text.ntasks > 0
                THEN DictSet(last_tasks, uri, text.ntasks)
                ELSE last_tasks)
    ELSE GetDocumentResult(
             ReturnedType,
             IF uri \in DOMAIN last_tasks THEN last_tasks[uri] ELSE 0,
             documents, last_tasks)

\* the outcome of handle_completion: an exception, or the result returned
Raised(exception) == [raised |-> TRUE, result |-> exception]
Returned(result) == [raised |-> FALSE, result |-> result]

\* handle_completion after get_document, lines 80-103
handle_completion(got, line, character) ==
    IF got.document.kind = "None" THEN Returned("no items")
    ELSE IF got.document.kind = "typing.List[str]"
    THEN Raised("TypeError")
    ELSE IF line > got.document.nlines \/ got.tasks = 0
    THEN Returned("no items")
    ELSE IF ~(line < got.document.nlines) THEN Raised("IndexError")
    ELSE IF ~(got.document.at /\ character > 0) THEN Returned("no items")
    ELSE Returned("items")

LspInit ==
    /\ pc = "lsp_reading"
    /\ documents = <<>>
    /\ last_tasks = <<>>
    /\ completions = 0
    /\ sent = <<>>
    /\ AlignIdle
    /\ PickIdle
    /\ DiffIdle
    /\ IdsIdle

\* lsp_loop reads textDocument/didOpen: handle_did_open, lines 106-111
DidOpen ==
    /\ pc = "lsp_reading"
    /\ \E uri \in Uris, text \in DocTexts :
           documents' = DictSet(documents, uri, StrDocument(text))
    /\ UNCHANGED <<pc, last_tasks, completions, sent>>
    /\ UNCHANGED <<alignVars, pickVars, diffVars, idsVars>>

\* lsp_loop reads textDocument/didChange: handle_did_change, lines 114-121
DidChange ==
    /\ pc = "lsp_reading"
    /\ \E uri \in Uris, content_changes \in {<<>>} \cup {<<text>> : text \in DocTexts} :
           documents' = IF content_changes # <<>>
                        THEN DictSet(documents, uri,
                                     StrDocument(content_changes[1]))
                        ELSE documents
    /\ UNCHANGED <<pc, last_tasks, completions, sent>>
    /\ UNCHANGED <<alignVars, pickVars, diffVars, idsVars>>

\* lsp_loop reads textDocument/completion, lines 159-162: an exception of
\* handle_completion leaves lsp_loop, and nothing is sent
Completion ==
    /\ pc = "lsp_reading"
    /\ completions < MaxRequests
    /\ \E uri \in Uris, line \in 0..(MaxLines + 1), character \in 0..1 :
           LET got == get_document(uri)
               outcome == handle_completion(got, line, character)
           IN /\ documents' = got.documents
              /\ last_tasks' = got.last_tasks
              /\ completions' = completions + 1
              /\ IF outcome.raised
                 THEN pc' = "lsp_crashed" /\ sent' = sent
                 ELSE /\ pc' = "lsp_reading"
                      /\ sent' = Append(sent, [id |-> completions + 1,
                                               result |-> outcome.result])
    /\ UNCHANGED <<alignVars, pickVars, diffVars, idsVars>>

LspNext == DidOpen \/ DidChange \/ Completion

SpecLsp == LspInit /\ [][LspNext]_vars

----------------------------------------------------------------------------
(* Operators used to state the properties *)

Merged == pc \in {"merged", "done"}

NonWhitespace(tokens) == SelectSeq(tokens, IsNotWhitespaceToken)

HasLeft(op) == op[1] # None
HasRight(op) == op[2] # None
IsPair(op) == op[1] # None /\ op[2] # None
IsLeftOnly(op) == op[1] # None /\ op[2] = None
IsRightOnly(op) == op[1] = None /\ op[2] # None

\* the left tokens and the right tokens of an alignment, in its order
LeftTokens(al) == LET ops == SelectSeq(al, HasLeft)
                  IN [i \in 1..Len(ops) |-> ops[i][1]]
RightTokens(al) == LET ops == SelectSeq(al, HasRight)
                   IN [i \in 1..Len(ops) |-> ops[i][2]]

\* the concatenation of the texts of a token sequence
TextOf(tokens) == Concat([i \in 1..Len(tokens) |-> Token_text(tokens[i])])

\* the number of indices of seq holding x
Count(seq, x) == Cardinality({i \in 1..Len(seq) : seq[i] = x})

\* seq1 holds exactly the elements of seq2, each the same number of times
SameTokens(seq1, seq2) ==
    /\ Len(seq1) = Len(seq2)
    /\ \A i \in 1..Len(seq2) : Count(seq1, seq2[i]) = Count(seq2, seq2[i])

\* the cost in tenths of operation op that follows prev in document order
OpCost(op, prev) ==
    IF IsPair(op) THEN Token_mutation_score(op[1], op[2]).t
    ELSE IF IsLeftOnly(op) THEN Token_insert_score(op[1], IsLeftOnly(prev)).t
    ELSE Token_insert_score(op[2], IsRightOnly(prev)).t

RECURSIVE TotalCostUpTo(_, _)
TotalCostUpTo(ops, n) ==
    IF n = 0 THEN 0
    ELSE TotalCostUpTo(ops, n - 1)
         + OpCost(ops[n], IF n = 1 THEN <<None, None>> ELSE ops[n - 1])

\* the total cost in tenths of the operations ops, read in document order
TotalCost(ops) == TotalCostUpTo(ops, Len(ops))

\* every order-preserving alignment of left[i..] with right[j..]
RECURSIVE AlignmentsFrom(_, _, _, _)
AlignmentsFrom(left, right, i, j) ==
    IF i > Len(left) /\ j > Len(right) THEN {<<>>}
    ELSE (IF i <= Len(left) /\ j <= Len(right)
          THEN {<<<<left[i], right[j]>>>> \o a :
                    a \in AlignmentsFrom(left, right, i + 1, j + 1)}
          ELSE {})
         \cup (IF i <= Len(left)
               THEN {<<<<left[i], None>>>> \o a :
                         a \in AlignmentsFrom(left, right, i + 1, j)}
               ELSE {})
         \cup (IF j <= Len(right)
               THEN {<<<<None, right[j]>>>> \o a :
                         a \in AlignmentsFrom(left, right, i, j + 1)}
               ELSE {})

Alignments(left, right) == AlignmentsFrom(left, right, 1, 1)

\* the texts of the two sides of an operation, "None" for a missing side
OpTexts(op) ==
    <<IF HasLeft(op) THEN Token_text(op[1]) ELSE <<"None">>,
      IF HasRight(op) THEN Token_text(op[2]) ELSE <<"None">> >>

----------------------------------------------------------------------------
(* Properties of align_texts and pretty_alignment *)

\* C1: in the alignment returned by align_texts(left, right), the texts of
\* the non-None left tokens, concatenated in output order, are exactly left,
\* and the texts of the non-None right tokens are exactly right.
C1_Coverage ==
    pc = "merged" => /\ TextOf(LeftTokens(alignment)) = left_text
              /\ TextOf(RightTokens(alignment)) = right_text

\* a merged alignment with a pair, a left-only whitespace token and a
\* right-only token, whose texts are put together again
C1_Witness ==
    /\ pc = "merged"
    /\ \E i, j, k \in 1..Len(alignment) :
           /\ IsPair(alignment[i])
           /\ IsLeftOnly(alignment[j]) /\ alignment[j][1].t = Ty_WHITESPACE
           /\ IsRightOnly(alignment[k])
    /\ Len(left_text) >= 3
    /\ TextOf(LeftTokens(alignment)) = left_text

\* C2: the operations returned by align(left, right) are an order-preserving
\* alignment of the two token sequences of minimum total cost, a pair costing
\* Token.mutation_score(l, r) and an unpaired token
\* Token.insert_score(previous_is_same), previous_is_same being true exactly
\* when the operation just before it in document order is an unpaired
\* operation of the same side.  (align returns the operations last first;
\* document order is the reverse of the returned list.)
C2_MinimumCost ==
    pc = "aligned" =>
        LET left == NonWhitespace(all_left_tokens)
            right == NonWhitespace(all_right_tokens)
            ops == Reverse(aligned)
            all == Alignments(left, right)
            cost == TotalCost(ops)
        IN /\ ops \in all
           /\ best.score.t = cost
           /\ \A a \in all : cost <= TotalCost(a)

\* align has chosen between a pair and two unpaired operations, and between
\* alignments of different cost
C2_Witness ==
    /\ pc = "aligned"
    /\ Len(aligned) >= 3
    /\ \E i, j \in 1..Len(aligned) :
           IsLeftOnly(aligned[i]) /\ IsPair(aligned[j])
    /\ \E a \in Alignments(NonWhitespace(all_left_tokens),
                           NonWhitespace(all_right_tokens)) :
           TotalCost(a) > TotalCost(Reverse(aligned))

\* C3 as stated: every operation of align_texts(s, s) is a pair with both
\* sides present and mutation_score 0, the whitespace tokens of s included.
C3_AllPairs ==
    (pc = "merged" /\ left_text = right_text) =>
        \A i \in 1..Len(alignment) :
            /\ IsPair(alignment[i])
            /\ Token_mutation_score(alignment[i][1], alignment[i][2])
                   = FromInt(0)

\* C3 amended: in align_texts(s, s) every non-whitespace token is in a pair
\* with the same token of the other side, of mutation_score 0, and every
\* whitespace token is in an unpaired operation, once on each side.
C3_Identity ==
    (pc = "merged" /\ left_text = right_text) =>
        /\ \A i \in 1..Len(alignment) :
               LET op == alignment[i] IN
               \/ /\ IsPair(op)
                  /\ op[1].t # Ty_WHITESPACE
                  /\ op[1].start = op[2].start /\ op[1].end = op[2].end
                  /\ op[1].t = op[2].t
                  /\ Token_mutation_score(op[1], op[2]) = FromInt(0)
               \/ IsLeftOnly(op) /\ op[1].t = Ty_WHITESPACE
               \/ IsRightOnly(op) /\ op[2].t = Ty_WHITESPACE
        /\ SameTokens(LeftTokens(alignment), all_left_tokens)
        /\ SameTokens(RightTokens(alignment), all_right_tokens)

\* a text with a word, a block marker and whitespace aligned with itself
C3_Witness ==
    /\ pc = "merged"
    /\ left_text = right_text
    /\ \E i, j, k \in 1..Len(alignment) :
           /\ IsPair(alignment[i]) /\ alignment[i][1].t = Ty_WORD
           /\ IsPair(alignment[j]) /\ alignment[j][1].t.isTuple
           /\ IsLeftOnly(alignment[k])

\* C4: the lines yielded by pretty_alignment(align_texts(s, s)) are s split
\* at its newline characters, without styling markers.
C4_IdentityLines ==
    (pc = "done" /\ left_text = right_text) => lines = SplitNewline(left_text)

\* C5: align_texts("", s) has only operations (None, right token) and every
\* token of token_parser(s) is in exactly one of them; align_texts(s, "")
\* has only operations (left token, None), covering every token of s.
C5_EmptySide ==
    pc = "merged" =>
        /\ left_text = <<>> =>
               /\ \A i \in 1..Len(alignment) : IsRightOnly(alignment[i])
               /\ SameTokens(RightTokens(alignment), all_right_tokens)
               /\ \A i \in 1..Len(all_right_tokens) :
                      Count(RightTokens(alignment), all_right_tokens[i]) = 1
        /\ right_text = <<>> =>
               /\ \A i \in 1..Len(alignment) : IsLeftOnly(alignment[i])
               /\ SameTokens(LeftTokens(alignment), all_left_tokens)
               /\ \A i \in 1..Len(all_left_tokens) :
                      Count(LeftTokens(alignment), all_left_tokens[i]) = 1

\* an empty left text against a text with whitespace and two other tokens
C5_Witness ==
    /\ pc = "merged"
    /\ left_text = <<>>
    /\ Len(aligned) >= 2
    /\ Len(alignment) > Len(aligned)
    /\ \A i \in 1..Len(alignment) : IsRightOnly(alignment[i])

\* C6: the left tokens of align_texts(left, right) are the tokens emitted by
\* token_parser(left), block markers included, in the same order; likewise
\* the right tokens and token_parser(right).
C6_TokenOrder ==
    Merged => /\ LeftTokens(alignment) = all_left_tokens
              /\ RightTokens(alignment) = all_right_tokens

\* the tokens of both sides are equal in kind and in text at every position
SameSequence(left, right) ==
    /\ Len(left) = Len(right)
    /\ \A i \in 1..Len(left) :
           left[i].t = right[i].t /\ Token_text(left[i]) = Token_text(right[i])

\* ... equal in kind and, ignoring case, in text at every position
SameSequenceIgnoringCase(left, right) ==
    /\ Len(left) = Len(right)
    /\ \A i \in 1..Len(left) :
           /\ left[i].t = right[i].t
           /\ Lower(Token_text(left[i])) = Lower(Token_text(right[i]))

\* C7 as stated: the score found by align over the non-whitespace tokens is
\* non-negative, and 0 iff both texts have the same sequence of
\* non-whitespace tokens, same kind and same text at every position.
C7_ZeroIffSame ==
    pc = "aligned" =>
        /\ ~Less(best.score, FromInt(0))
        /\ best.score = FromInt(0)
               <=> SameSequence(NonWhitespace(all_left_tokens),
                                NonWhitespace(all_right_tokens))

\* C7 amended: the score is non-negative, and 0 iff both texts have the same
\* number of non-whitespace tokens and at every position the two tokens have
\* equal types (Token.t) and texts that are equal ignoring case.
C7_ZeroIffSameIgnoringCase ==
    pc = "aligned" =>
        /\ ~Less(best.score, FromInt(0))
        /\ best.score = FromInt(0)
               <=> SameSequenceIgnoringCase(NonWhitespace(all_left_tokens),
                                            NonWhitespace(all_right_tokens))

\* a score of 0 for two texts that differ in case only
C7_Witness ==
    /\ pc = "aligned"
    /\ best.score = FromInt(0)
    /\ aligned # <<>>
    /\ \E i \in 1..Len(aligned) :
           Token_text(aligned[i][1]) # Token_text(aligned[i][2])

IsBlockOfDepth(token, depth) == token.t.isTuple /\ token.t.b = depth

\* C8: for left = "a\n  b" and right = "a\n    b", align_texts pairs the
\* left block marker of depth 2 with the right block marker of depth 4 in
\* one operation, whose mutation_score is 2.
C8_BlockPair ==
    (pc = "merged" /\ left_text = Indent2 /\ right_text = Indent4) =>
        \E i \in 1..Len(alignment) :
            /\ IsPair(alignment[i])
            /\ IsBlockOfDepth(alignment[i][1], 2)
            /\ IsBlockOfDepth(alignment[i][2], 4)
            /\ Token_mutation_score(alignment[i][1], alignment[i][2])
                   = FromInt(2)

FooBarAligned == pc = "merged" /\ left_text = FooBar /\ right_text = FooBaz

Foo == <<"f", "o", "o">>
Bar == <<"b", "a", "r">>
Baz == <<"b", "a", "z">>

\* C9 as stated: align_texts("foo bar", "foo baz") is the three pairs
\* ("foo","foo") of cost 0, (" "," ") of cost 0 and ("bar","baz") of cost 1.
C9_ThreePairs ==
    FooBarAligned =>
        /\ [i \in 1..Len(alignment) |-> OpTexts(alignment[i])]
               = << <<Foo, Foo>>, <<<<" ">>, <<" ">> >>, <<Bar, Baz>> >>
        /\ \A i \in 1..Len(alignment) : IsPair(alignment[i])
        /\ Token_mutation_score(alignment[1][1], alignment[1][2]) = FromInt(0)
        /\ Token_mutation_score(alignment[2][1], alignment[2][2]) = FromInt(0)
        /\ Token_mutation_score(alignment[3][1], alignment[3][2]) = FromInt(1)

\* C9 amended: align_texts("foo bar", "foo baz") is four operations in
\* order: the pair ("foo","foo") of cost 0, the right space alone, the left
\* space alone, and the pair ("bar","baz") of cost 1.
C9_FourOperations ==
    FooBarAligned =>
        /\ [i \in 1..Len(alignment) |-> OpTexts(alignment[i])]
               = << <<Foo, Foo>>, <<<<"None">>, <<" ">> >>,
                    <<<<" ">>, <<"None">> >>, <<Bar, Baz>> >>
        /\ Token_mutation_score(alignment[1][1], alignment[1][2]) = FromInt(0)
        /\ IsRightOnly(alignment[2]) /\ alignment[2][2].t = Ty_WHITESPACE
        /\ IsLeftOnly(alignment[3]) /\ alignment[3][1].t = Ty_WHITESPACE
        /\ Token_mutation_score(alignment[4][1], alignment[4][2]) = FromInt(1)

C9_Witness == FooBarAligned /\ Len(alignment) = 4

FooBarRendered == pc = "done" /\ left_text = FooBar /\ right_text = FooBaz

\* C10 as stated: pretty_alignment(align_texts("foo bar", "foo baz")) yields
\* three lines: the unstyled line "foo ", a line with "bar" in deletion
\* style and a line with "baz" in addition style.
C10_ThreeLines ==
    FooBarRendered =>
        /\ Len(lines) = 3
        /\ lines[1] = Foo \o <<" ">>
        /\ \E i \in 1..Len(lines[2]) :
               SubSeq(lines[2], i, i + 3) = <<Fore_red>> \o Bar
        /\ \E i \in 1..Len(lines[3]) :
               SubSeq(lines[3], i, i + 3) = <<Fore_green>> \o Baz

\* C10 amended: it yields two lines: four blanks followed by "bar" in
\* deletion style (red), and the unstyled "foo " followed by "baz" in
\* addition style (green).
C10_TwoLines ==
    FooBarRendered =>
        lines = << Spaces(4) \o <<Fore_red>> \o Bar \o <<Style_reset>>,
                   Foo \o <<" ">> \o <<Fore_green>> \o Baz
                       \o <<Style_reset>> >>

C10_Witness == FooBarRendered /\ Len(lines) = 2

----------------------------------------------------------------------------
(* Properties of token_parser *)

Tokenized == pc # "start"

TokenTexts(tokens) == [i \in 1..Len(tokens) |-> Token_text(tokens[i])]

\* C11: token_parser("[t12] done") emits the five characters "[t12]" as one
\* token of kind Word, followed by the whitespace token and the token "done".
C11_BracketToken ==
    (Tokenized /\ left_text = T12Done) =>
        /\ all_left_tokens[1] = Token(T12Done, 0, 5, Ty_WORD)
        /\ TokenTexts(all_left_tokens)
               = << <<"[", "t", "1", "2", "]">>, <<" ">>,
                    <<"d", "o", "n", "e">> >>

\* the first token starts at 0, every token starts where the token emitted
\* before it ends, and the last token ends at len(source)
Contiguous(source, tokens) ==
    tokens # <<>> =>
        /\ tokens[1].start = 0
        /\ \A i \in 2..Len(tokens) : tokens[i].start = tokens[i - 1].end
        /\ Last(tokens).end = Len(source)

\* C12: in the sequence emitted by token_parser, block markers included, the
\* first token starts at offset 0, each token starts at the end of the token
\* emitted just before it, and the last token ends at len(source).
C12_Contiguous ==
    Tokenized => /\ Contiguous(left_text, all_left_tokens)
                 /\ Contiguous(right_text, all_right_tokens)

\* the start offsets of a token sequence never decrease
NonDecreasingStarts(tokens) ==
    \A i \in 2..Len(tokens) : tokens[i - 1].start <= tokens[i].start

\* C13: add_tokens, given the alignment align computed over the
\* non-whitespace tokens and the two lists of whitespace tokens, returns an
\* alignment that holds every input token of each side exactly once, every
\* whitespace token in an unpaired operation, and in which the start offsets
\* of the left tokens never decrease, nor those of the right tokens.
C13_AddTokens ==
    pc = "merged" =>
        /\ SameTokens(LeftTokens(alignment), all_left_tokens)
        /\ SameTokens(RightTokens(alignment), all_right_tokens)
        /\ \A i \in 1..Len(all_left_tokens) :
               Count(LeftTokens(alignment), all_left_tokens[i]) = 1
        /\ \A i \in 1..Len(all_right_tokens) :
               Count(RightTokens(alignment), all_right_tokens[i]) = 1
        /\ \A i \in 1..Len(alignment) :
               /\ alignment[i][1].t = Ty_WHITESPACE => IsLeftOnly(alignment[i])
               /\ alignment[i][2].t = Ty_WHITESPACE => IsRightOnly(alignment[i])
        /\ NonDecreasingStarts(LeftTokens(alignment))
        /\ NonDecreasingStarts(RightTokens(alignment))

\* whitespace of both sides spliced in before a pair that is not the first
\* operation of the alignment align returned
C13_Witness ==
    /\ pc = "merged"
    /\ \E i, j, k \in 1..Len(alignment) :
           /\ i < j /\ j < k
           /\ IsPair(alignment[i])
           /\ alignment[j][1].t = Ty_WHITESPACE
           /\ IsPair(alignment[k])
    /\ \E j \in 1..Len(alignment) : alignment[j][2].t = Ty_WHITESPACE

----------------------------------------------------------------------------
(* Properties of the token scores *)

\* the kind of a token: its CharType, or 3 for a block marker
KindOf(token) == IF token.t.isTuple THEN 3 ELSE token.t.a

\* C15: Token.mutation_score(a, b) is 100 when the kinds differ, is
\* abs(depthA - depthB) when both are block markers whatever their depths,
\* and otherwise 0 when the texts are equal ignoring case and 1 when not.
C15_MutationScore ==
    Tokenized =>
        \A i \in 1..Len(all_left_tokens), j \in 1..Len(all_right_tokens) :
            LET a == all_left_tokens[i]
                b == all_right_tokens[j]
            IN Token_mutation_score(a, b) =
                   IF KindOf(a) # KindOf(b) THEN FromInt(100)
                   ELSE IF a.t.isTuple THEN FromInt(Abs(a.t.b - b.t.b))
                   ELSE IF Lower(Token_text(a)) = Lower(Token_text(b))
                        THEN FromInt(0)
                   ELSE FromInt(1)

\* tokens[i] is the block marker of an indentation decrease: the whitespace
\* token emitted after it ends in an indentation smaller than its depth
IsBlockEnd(tokens, i) ==
    /\ tokens[i].t.isTuple
    /\ i < Len(tokens)
    /\ Len(Last(SplitNewline(Token_text(tokens[i + 1])))) < tokens[i].t.b

InsertScoreAsClaimed(tokens, i) ==
    /\ Token_insert_score(tokens[i], TRUE) =
           IF IsBlockEnd(tokens, i) THEN Plus(Float_0_3, FromInt(1))
           ELSE Float_0_3
    /\ Token_insert_score(tokens[i], FALSE) =
           IF IsBlockEnd(tokens, i) THEN Plus(Float_0_7, FromInt(1))
           ELSE Float_0_7

\* C16: Token.insert_score(previous_is_same) is 0.3 when previous_is_same is
\* true and 0.7 otherwise, plus 1.0 when the token is a Block-End marker.
C16_InsertScore ==
    Tokenized =>
        /\ \A i \in 1..Len(all_left_tokens) :
               InsertScoreAsClaimed(all_left_tokens, i)
        /\ \A i \in 1..Len(all_right_tokens) :
               InsertScoreAsClaimed(all_right_tokens, i)

----------------------------------------------------------------------------
(* Properties of the cells of align *)

Finite(data) == data.score.t # Inf

HasFinite(cell) ==
    \/ Finite(cell.last_was_mutation)
    \/ Finite(cell.last_was_insert_left)
    \/ Finite(cell.last_was_insert_right)

NonNegative(cell) ==
    /\ ~Less(cell.last_was_mutation.score, FromInt(0))
    /\ ~Less(cell.last_was_insert_left.score, FromInt(0))
    /\ ~Less(cell.last_was_insert_right.score, FromInt(0))

\* the rows of cells align builds for left and right: row j + 1 is `current`
\* after j right tokens
RECURSIVE RowsUpTo(_, _, _)
RowsUpTo(left, right, j) ==
    IF j = 0 THEN <<FirstRow(left, Len(left))>>
    ELSE LET rows == RowsUpTo(left, right, j - 1)
         IN Append(rows, NextRow(Last(rows), left, right[j], Len(left)))

AllRows(left, right) == RowsUpTo(left, right, Len(right))

\* C19: in every cell align builds each of the three scores is >= 0
\* (possibly infinite), and neither pick_best nor extract_best returns an
\* alternative of infinite score when one of the alternatives offered to it
\* is finite.
C19_FiniteSelected ==
    pc = "aligned" =>
        LET left == NonWhitespace(all_left_tokens)
            right == NonWhitespace(all_right_tokens)
            rows == AllRows(left, right)
        IN /\ \A j \in 1..Len(rows), n \in 1..(Len(left) + 1) :
                  /\ NonNegative(rows[j][n])
                  /\ (j > 1 /\ n > 1 /\ HasFinite(rows[j - 1][n - 1]))
                         => Finite(rows[j][n].last_was_mutation)
                  /\ (n > 1 /\ HasFinite(rows[j][n - 1]))
                         => Finite(rows[j][n].last_was_insert_left)
                  /\ (j > 1 /\ HasFinite(rows[j - 1][n]))
                         => Finite(rows[j][n].last_was_insert_right)
           /\ HasFinite(Last(Last(rows))) => Finite(best)
           /\ best = extract_best(Last(Last(rows)))

\* a grid with inner cells, whose border cells hold unreachable alternatives
C19_Witness ==
    /\ pc = "aligned"
    /\ Len(NonWhitespace(all_left_tokens)) >= 2
    /\ Len(NonWhitespace(all_right_tokens)) >= 2
    /\ Finite(best)
    /\ LET rows == AllRows(NonWhitespace(all_left_tokens),
                           NonWhitespace(all_right_tokens))
       IN /\ ~Finite(rows[2][1].last_was_mutation)
          /\ Finite(rows[2][2].last_was_insert_left)

Involves(op, token) == op[1] = token \/ op[2] = token

\* C20 as stated: the list align returns is in document order: its first
\* operation involves the first left or the first right token and its last
\* operation the last token of one side, when it has two operations or more.
C20_DocumentOrder ==
    (pc = "aligned" /\ Len(aligned) >= 2) =>
        LET left == NonWhitespace(all_left_tokens) \o <<None>>
            right == NonWhitespace(all_right_tokens) \o <<None>>
        IN /\ \/ HasLeft(aligned[1]) /\ aligned[1][1] = left[1]
              \/ HasRight(aligned[1]) /\ aligned[1][2] = right[1]
           /\ \/ /\ HasLeft(Last(aligned))
                 /\ Last(aligned)[1] = left[Len(left) - 1]
              \/ /\ HasRight(Last(aligned))
                 /\ Last(aligned)[2] = right[Len(right) - 1]

\* C20 amended: the list align returns is in reverse document order: its
\* first operation involves the last token of one side, its last operation
\* the first left or the first right token, and the left tokens and the
\* right tokens appear in it in the reverse of their input order.
C20_ReverseOrder ==
    (pc = "aligned" /\ Len(aligned) >= 2) =>
        LET left == NonWhitespace(all_left_tokens)
            right == NonWhitespace(all_right_tokens)
        IN /\ \/ HasLeft(aligned[1]) /\ aligned[1][1] = Last(left)
              \/ HasRight(aligned[1]) /\ aligned[1][2] = Last(right)
           /\ \/ HasLeft(Last(aligned)) /\ Last(aligned)[1] = left[1]
              \/ HasRight(Last(aligned)) /\ Last(aligned)[2] = right[1]
           /\ LeftTokens(aligned) = Reverse(left)
           /\ RightTokens(aligned) = Reverse(right)

\* two tokens or more on each side
C20_Witness ==
    /\ pc = "aligned"
    /\ Len(NonWhitespace(all_left_tokens)) >= 2
    /\ Len(NonWhitespace(all_right_tokens)) >= 2
    /\ Len(aligned) >= 3
    /\ LeftTokens(aligned) = Reverse(NonWhitespace(all_left_tokens))

----------------------------------------------------------------------------
(* Properties of pick_best and extract_best *)

Picked == pc \in {"picked", "extracted"}

\* the alternative whose backpointer pick_best returned
PickedKind == picked.path[2]

\* the alternative extract_best returned
ExtractedKind == extracted.path[1]

\* the smaller insertion candidate, as pick_best compares them
SmallerInsertion(il, ir) == IF Less(il, ir) THEN il ELSE ir

\* C17 as stated: pick_best chooses the mutation candidate only when its
\* score is strictly less than that of the smaller insertion candidate, and
\* chooses the insertion predecessor when the two tie.
C17_MutationOnlyWhenLess ==
    Picked =>
        LET ins == SmallerInsertion(candidates[2], candidates[3])
        IN /\ PickedKind = "mutation" => Less(candidates[1], ins)
           /\ candidates[1] = ins => PickedKind # "mutation"

\* C17 amended: pick_best chooses an insertion candidate only when its score
\* is strictly less than that of the mutation candidate (insert_left only
\* when also strictly less than insert_right); when the mutation candidate
\* ties with the smaller insertion candidate, the mutation predecessor and
\* its backpointer are chosen. The score returned is the least of the three.
C17_InsertionOnlyWhenLess ==
    Picked =>
        LET m == candidates[1]
            il == candidates[2]
            ir == candidates[3]
            ins == SmallerInsertion(il, ir)
        IN /\ PickedKind = "insert_left" =>
                  /\ Less(il, m) /\ Less(il, ir)
                  /\ picked = AlignmentData(il, <<"payload">> \o InsertLeftPath)
           /\ PickedKind = "insert_right" =>
                  /\ Less(ir, m) /\ ~Less(il, ir)
                  /\ picked = AlignmentData(ir, <<"payload">> \o InsertRightPath)
           /\ PickedKind = "mutation" =>
                  picked = AlignmentData(m, <<"payload">> \o MutationPath)
           /\ m = ins => PickedKind = "mutation"
           /\ ~Less(m, picked.score)
           /\ ~Less(il, picked.score)
           /\ ~Less(ir, picked.score)

\* a finite tie between the mutation and the smaller insertion candidate
C17_Witness ==
    /\ pc = "picked"
    /\ candidates[1] = Float_0_7
    /\ candidates[2] = Float_0_7
    /\ candidates[3] = FromInt(1)
    /\ PickedKind = "mutation"

\* pick_best was given the three scores of the state as candidates
SameScores ==
    candidates = <<state.last_was_mutation.score,
                   state.last_was_insert_left.score,
                   state.last_was_insert_right.score>>

\* C18 as stated: for every triple of scores, extract_best returns the
\* alternative of the kind pick_best selects when given those three scores
\* as candidates.
C18_SameTieBreak ==
    (pc = "extracted" /\ SameScores) => ExtractedKind = PickedKind

\* C18 amended: extract_best returns an alternative of least score, the
\* mutation alternative only when its score is strictly less than both
\* insertion scores and insert_left only when its score is strictly less
\* than that of insert_right; it returns the alternative of the kind
\* pick_best selects whenever the mutation score differs from the smaller
\* insertion score, and an insertion where pick_best selects the mutation
\* when they tie.
C18_ExtractTieBreak ==
    pc = "extracted" =>
        LET m == state.last_was_mutation.score
            il == state.last_was_insert_left.score
            ir == state.last_was_insert_right.score
        IN /\ extracted \in {state.last_was_mutation,
                             state.last_was_insert_left,
                             state.last_was_insert_right}
           /\ ~Less(m, extracted.score)
           /\ ~Less(il, extracted.score)
           /\ ~Less(ir, extracted.score)
           /\ ExtractedKind = "mutation" => Less(m, il) /\ Less(m, ir)
           /\ ExtractedKind = "insert_left" => Less(il, ir)
           /\ SameScores =>
                  IF m # SmallerInsertion(il, ir)
                  THEN ExtractedKind = PickedKind
                  ELSE /\ PickedKind = "mutation"
                       /\ ExtractedKind # "mutation"

\* the mutation score ties with the smaller insertion score
C18_Witness ==
    /\ pc = "extracted"
    /\ SameScores
    /\ state.last_was_mutation.score = Float_0_7
    /\ state.last_was_insert_left.score = Float_0_7
    /\ state.last_was_insert_right.score = FromInt(1)
    /\ PickedKind = "mutation"
    /\ ExtractedKind = "insert_left"

----------------------------------------------------------------------------
(* Properties of TodoFile.diff *)

IdentifiersOf(tasks) == {tasks[i].identifier : i \in 1..Len(tasks)}

\* the serialized text of task k of a snapshot, "" when it has no such task
TextIn(tasks, k) ==
    IF k \in IdentifiersOf(tasks)
    THEN JoinLines(Task_ser(TasksGet(tasks, k)[1]))
    ELSE <<>>

\* k is a task of exactly one snapshot, or of both with different texts
Changed(k) ==
    \/ k \in IdentifiersOf(self_tasks) /\ k \notin IdentifiersOf(other_tasks)
    \/ k \notin IdentifiersOf(self_tasks) /\ k \in IdentifiersOf(other_tasks)
    \/ /\ k \in IdentifiersOf(self_tasks) \cap IdentifiersOf(other_tasks)
       /\ TextIn(self_tasks, k) # TextIn(other_tasks, k)

CallsFor(k) == {i \in 1..Len(calls) : calls[i][1] = k}

\* C14: new.diff(old).diff_tasks has an entry for identifier k iff k is a
\* task of exactly one snapshot or of both with different serialized text;
\* each entry comes from exactly one align_texts call, with the arguments
\* (old text, new text) and "" for the side where the task is absent, and
\* no call is made for any other identifier.
C14_DiffEntries ==
    pc = "diff_done" =>
        /\ DOMAIN diff_tasks = {k \in Identifiers : Changed(k)}
        /\ \A k \in DOMAIN diff_tasks :
               /\ Cardinality(CallsFor(k)) = 1
               /\ \A i \in CallsFor(k) :
                      /\ calls[i][2] = TextIn(other_tasks, k)
                      /\ calls[i][3] = TextIn(self_tasks, k)
                      /\ diff_tasks[k].diff =
                             DiffText(TextIn(other_tasks, k),
                                      TextIn(self_tasks, k))
        /\ Len(calls) = Cardinality(DOMAIN diff_tasks)

\* a task of both snapshots whose title changed, which has an entry, and a
\* task of both that differs by its section only, which has none
C14_Witness ==
    /\ pc = "diff_done"
    /\ Len(calls) = 1
    /\ \E k \in DOMAIN diff_tasks :
           /\ k \in IdentifiersOf(self_tasks) \cap IdentifiersOf(other_tasks)
    /\ \E k \in IdentifiersOf(self_tasks) \cap IdentifiersOf(other_tasks) :
           /\ k \notin DOMAIN diff_tasks
           /\ TasksGet(self_tasks, k)[1].section
                  # TasksGet(other_tasks, k)[1].section

----------------------------------------------------------------------------
(* Properties of the block markers *)

\* the indentation a whitespace token ends in: the length of its text after
\* its last newline
IndentationOf(token) == Len(Last(SplitNewline(Token_text(token))))

\* tokens[i..] holds the markers the claim describes, prev being the
\* indentation before tokens[i]
RECURSIVE MarkersFrom(_, _, _)
MarkersFrom(tokens, i, prev) ==
    IF i > Len(tokens) THEN TRUE
    ELSE IF tokens[i].t.isTuple
    THEN /\ i < Len(tokens)
         /\ tokens[i + 1].t = Ty_WHITESPACE
         /\ HasNewline(Token_text(tokens[i + 1]))
         /\ IndentationOf(tokens[i + 1]) # prev
         /\ tokens[i].start = tokens[i].end
         /\ tokens[i].t.b = IF IndentationOf(tokens[i + 1]) < prev THEN prev
                            ELSE IndentationOf(tokens[i + 1])
         /\ MarkersFrom(tokens, i + 2, IndentationOf(tokens[i + 1]))
    ELSE IF /\ tokens[i].t = Ty_WHITESPACE
            /\ HasNewline(Token_text(tokens[i]))
            /\ IndentationOf(tokens[i]) # prev
    THEN FALSE
    ELSE MarkersFrom(tokens, i + 1, prev)

\* C21: token_parser emits exactly one zero-width block marker for each
\* whitespace run that contains a newline and ends in an indentation
\* different from prev_indentation, and no other marker; the marker is the
\* token emitted just before that whitespace token, its depth is
\* prev_indentation on a decrease and the new indentation on an increase,
\* and prev_indentation is the new indentation afterwards.
C21_OneMarker ==
    pc = "tokenized" => /\ MarkersFrom(all_left_tokens, 1, 0)
                 /\ MarkersFrom(all_right_tokens, 1, 0)

\* a text with an indentation increase followed by a decrease
C21_Witness ==
    /\ pc = "tokenized"
    /\ \E i, j \in 1..Len(all_left_tokens) :
           /\ i < j
           /\ all_left_tokens[i].t.isTuple
           /\ ~IsBlockEnd(all_left_tokens, i)
           /\ IsBlockEnd(all_left_tokens, j)

\* the marker of a decrease and the marker of an increase of the same depth
\* have different kinds
DistinctEndStart(tokens) ==
    \A i, j \in 1..Len(tokens) :
        (/\ IsBlockEnd(tokens, i)
         /\ tokens[j].t.isTuple
         /\ ~IsBlockEnd(tokens, j)
         /\ tokens[i].t.b = tokens[j].t.b) => tokens[i].t # tokens[j].t

\* C22: a block marker emitted for an indentation decrease has a kind
\* different from the one emitted for an increase of the same depth:
\* (Block.END, d) and (Block.START, d) are unequal for every depth d.
C22_EndIsNotStart ==
    Tokenized => /\ DistinctEndStart(all_left_tokens)
                 /\ DistinctEndStart(all_right_tokens)

----------------------------------------------------------------------------
(* Properties of pretty_alignment *)

\* the states of the loop of pretty_alignment: element i + 1 is the state
\* after the first i operations
RECURSIVE PrettyStates(_, _)
PrettyStates(alignment_, n) ==
    IF n = 0 THEN <<PrettyState(<<>>, <<>>, TRUE, <<>>)>>
    ELSE LET states == PrettyStates(alignment_, n - 1)
         IN Append(states, PrettyStep(Last(states), alignment_[n]))

\* the left-only operations of the alignment whose token is not whitespace
DeletedTokens ==
    {i \in 1..Len(alignment) :
        IsLeftOnly(alignment[i]) /\ alignment[i][1].t # Ty_WHITESPACE}

\* C23 as stated: for a left-only non-whitespace token pretty_alignment
\* puts the struck-through text on the left line and blank padding of equal
\* width on the right line.
C23_StruckOnLeft ==
    pc = "merged" =>
        \A i \in DeletedTokens :
            LET states == PrettyStates(alignment, i)
                before == states[i]
                after == states[i + 1]
                text == Token_text(alignment[i][1])
            IN /\ after.left_line =
                      Append(before.left_line, ColoredString(text, "red", TRUE))
               /\ after.right_line =
                      Append(before.right_line, Str(Spaces(Len(text))))

\* C23 amended: for a left-only non-whitespace token pretty_alignment puts
\* the token's text, red and struck-through, on the right line and blank
\* padding of equal width on the left line, and flushes nothing.
C23_StruckOnRight ==
    pc = "merged" =>
        \A i \in DeletedTokens :
            LET states == PrettyStates(alignment, i)
                before == states[i]
                after == states[i + 1]
                text == Token_text(alignment[i][1])
            IN /\ after.right_line =
                      Append(before.right_line, ColoredString(text, "red", TRUE))
               /\ after.left_line =
                      Append(before.left_line, Str(Spaces(Len(text))))
               /\ ColoredString_len(after.left_line)
                      = ColoredString_len(before.left_line) + Len(text)
               /\ after.out = before.out
               /\ ~after.prev_was_space

\* a deleted word after other operations of the same line
C23_Witness ==
    /\ Merged
    /\ \E i \in DeletedTokens :
           /\ Len(Token_text(alignment[i][1])) > 0
           /\ PrettyLoop(alignment, i - 1).right_line # <<>>

\* C24: after pretty_alignment has processed each operation of the
\* alignment, the accumulated left line and right line have the same length
\* in characters without styling.
C24_SameLength ==
    pc = "merged" =>
        LET states == PrettyStates(alignment, Len(alignment))
        IN \A i \in 1..Len(states) :
               ColoredString_len(states[i].left_line)
                   = ColoredString_len(states[i].right_line)

\* a pair of tokens of different lengths, and operations of the other kinds
C24_Witness ==
    /\ Merged
    /\ \E i \in 1..Len(alignment) :
           /\ IsPair(alignment[i])
           /\ Len(Token_text(alignment[i][1]))
                  # Len(Token_text(alignment[i][2]))
    /\ \E i \in 1..Len(alignment) : IsRightOnly(alignment[i])

\* the number of newline characters in the right-only whitespace tokens of
\* the first n operations
RECURSIVE RightOnlyNewlines(_, _)
RightOnlyNewlines(alignment_, n) ==
    IF n = 0 THEN 0
    ELSE RightOnlyNewlines(alignment_, n - 1)
         + (IF /\ IsRightOnly(alignment_[n])
               /\ alignment_[n][2].t = Ty_WHITESPACE
            THEN Len(SplitNewline(Token_text(alignment_[n][2]))) - 1
            ELSE 0)

Flushes == 1 + RightOnlyNewlines(alignment, Len(alignment))

\* C25 as stated: every flush yields at least one line, so the number of
\* lines yielded is at least 1 plus the number of newline characters in the
\* right-only whitespace tokens.
C25_EveryFlushYields ==
    pc = "done" => Len(lines) >= Flushes

\* an operation that can leave a styled element of blank text on a line: a
\* left-only whitespace token, or one with a block marker
BlankStyled(op) ==
    \/ IsLeftOnly(op) /\ op[1].t = Ty_WHITESPACE
    \/ HasLeft(op) /\ op[1].t.isTuple
    \/ HasRight(op) /\ op[2].t.isTuple

\* C25 amended: a flush yields no line when the two lines differ and are
\* both whitespace-only without styling, and at least one line otherwise;
\* the number of lines yielded is at most twice the number of flushes (1
\* plus the newline characters of the right-only whitespace tokens), and at
\* least that number when the alignment holds no left-only whitespace token
\* and no block marker.
C25_FlushBounds ==
    pc = "done" =>
        /\ Len(lines) <= 2 * Flushes
        /\ (\A i \in 1..Len(alignment) : ~BlankStyled(alignment[i]))
               => Len(lines) >= Flushes
        /\ LET st == PrettyLoop(alignment, Len(alignment))
           IN flush(st.left_line, st.right_line) = <<>> <=>
                  /\ ColoredString_isspace(st.left_line)
                  /\ ColoredString_isspace(st.right_line)
                  /\ ColoredString_format(st.left_line)
                         # ColoredString_format(st.right_line)

\* the last flush yields nothing
C25_Witness ==
    /\ pc = "done"
    /\ Len(lines) < Flushes
    /\ LET st == PrettyLoop(alignment, Len(alignment))
       IN flush(st.left_line, st.right_line) = <<>>

----------------------------------------------------------------------------
(* add_tokens with line 382 testing a_left *)

\* line 382 as `a_left if a_left is not None else left_position`
LeftPositionKept(a_left, left_position) ==
    IF a_left # None THEN a_left ELSE left_position

\* one iteration of the loop at line 376 with the left boundary kept
StepKept(st, op, left, right) ==
    LET a_left == op[1]
        a_right == op[2]
        right_position == add_tokens_right_position(a_right, st.right_position)
        right_index == IF right_position # None
                       THEN SpliceEnd(right, st.right_index, right_position)
                       ELSE st.right_index
        left_position == LeftPositionKept(a_left, st.left_position)
        left_index == IF left_position # None
                      THEN SpliceEnd(left, st.left_index, left_position)
                      ELSE st.left_index
    IN AddTokensState(st.new_alignment
                          \o RightOnly(right, st.right_index, right_index)
                          \o LeftOnly(left, st.left_index, left_index)
                          \o <<op>>,
                      left_index, right_index, left_position, right_position)

RECURSIVE LoopKept(_, _, _, _)
LoopKept(ops, n, left, right) ==
    IF n = 0 THEN AddTokensState(<<>>, 0, 0, None, None)
    ELSE StepKept(LoopKept(ops, n - 1, left, right), ops[n], left, right)

AddTokensKept(old_alignment, left, right) ==
    LET st == LoopKept(Reverse(old_alignment), Len(old_alignment), left, right)
    IN st.new_alignment \o add_tokens_rest(st, left, right)

\* C26: the output of add_tokens equals the output of the variant in which
\* the left boundary is kept from the last operation that had a left token
\* (line 382 testing a_left instead of the list left), as the right boundary
\* is kept.
C26_LeftAsRight ==
    pc = "merged" =>
        alignment = AddTokensKept(aligned,
                        SelectSeq(all_left_tokens, IsWhitespaceToken),
                        SelectSeq(all_right_tokens, IsWhitespaceToken))

\* an operation without left token comes between two operations with left
\* tokens, and left whitespace follows it
C26_Witness ==
    /\ pc = "merged"
    /\ \E i, j, k \in 1..Len(alignment) :
           /\ i < j /\ j < k
           /\ HasLeft(alignment[i]) /\ alignment[i][1].t # Ty_WHITESPACE
           /\ IsRightOnly(alignment[j]) /\ alignment[j][2].t # Ty_WHITESPACE
           /\ HasLeft(alignment[k]) /\ alignment[k][1].t = Ty_WHITESPACE

----------------------------------------------------------------------------
(* TodoFile.diff and the sections *)

SectionIn(tasks, k) == TasksGet(tasks, k)[1].section

\* C27: a task with the same identifier in both snapshots and a different
\* section in each has a diff entry whose old_section differs from its
\* new_section (so that DiffFile.ser emits the notice 'Following task was
\* moved from section'), also when its serialized text is unchanged.
C27_MovedEntry ==
    pc = "diff_done" =>
        \A k \in IdentifiersOf(self_tasks) \cap IdentifiersOf(other_tasks) :
            SectionIn(self_tasks, k) # SectionIn(other_tasks, k) =>
                /\ k \in DOMAIN diff_tasks
                /\ diff_tasks[k].old_section # diff_tasks[k].new_section

----------------------------------------------------------------------------
(* Properties of _add_missing_ids *)

\* C28: each identifier _add_missing_ids assigns to a task without
\* identifier is not already a key of tasks (the assertion at line 206 never
\* fails), whatever the header's task counter and the identifiers present,
\* and non_id_tasks is empty afterwards.
C28_FreshIdentifiers ==
    pc = "ids_done" => /\ ~assertion_failed
                       /\ non_id_tasks = <<>>

----------------------------------------------------------------------------
(* Properties of the LSP loop *)

\* C29: every textDocument/completion request read by the loop is answered
\* with exactly one response message and the loop goes on to read the next
\* request, for any sequence of didOpen, didChange and completion messages.
C29_Answered ==
    pc \in {"lsp_reading", "lsp_crashed"} =>
        /\ pc = "lsp_reading"
        /\ Len(sent) = completions
        /\ \A id \in 1..completions :
               Cardinality({i \in 1..Len(sent) : sent[i].id = id}) = 1

====
